---- MODULE Spec2Model ----
(***************************************************************************)
(* RepoRecon backend: AnalyzeRepoView.post of core/views.py and the        *)
(* analysis pipeline perform_deep_analysis of core/gemini_service.py       *)
(* (README fetch and reduction, model selection, generate call with its    *)
(* retry loop, reply parsing, schema validation).                          *)
(*                                                                         *)
(* Python strings are modelled as sequences of tokens: a token is one      *)
(* character ("{", "\"", ".", " ", ...) or one word that the code only     *)
(* ever treats as a unit ("summary", "Let me know", ...).                  *)
(***************************************************************************)
EXTENDS Integers, Sequences, FiniteSets, TLC

VARIABLES
    view,           \* position in AnalyzeRepoView.post: "post", "analysing", "responded"
    request,        \* what request.data holds under github_url
    http,           \* the Response post returned
    pc,             \* position in perform_deep_analysis
    api_key,        \* settings.GEMINI_API_KEY is truthy
    net,            \* network calls made so far, in order
    readme,         \* the text fetch_github_readme returned (not changed afterwards)
    readme_content, \* local readme_content
    models_listed,  \* the answer genai.list_models() gave
    constructs,     \* the identifiers on which GenerativeModel succeeds
    tried,          \* the identifiers GenerativeModel was called on, in order
    model,          \* identifier of the model configure_gemini_model returned
    script,         \* the backend: outcome of the 1st, 2nd, ... generate_content call
    gen,            \* generate_content calls made so far, in order
    attempt,        \* loop variable of the retry loop
    retry_delay,    \* local retry_delay
    slept,          \* total seconds passed to time.sleep
    response,       \* local response: [set |-> assigned?, text |-> response.text]
    origin,         \* how the backend built the reply text (not read by the program)
    parsed,         \* local parsed_response
    via,            \* the return statement of parse_gemini_response that returned it
    validated,      \* local validated_response (the value returned)
    error,          \* "none", or the class of the error that left perform_deep_analysis
    error_msg       \* str() of that error

vars == <<view, request, http, pc, api_key, net, readme, readme_content, models_listed,
          constructs, tried, model, script, gen, attempt, retry_delay, slept, response,
          origin, parsed, via, validated, error, error_msg>>

----------------------------------------------------------------------------
(* Bounds of the model *)

\* number of generate_content outcomes the backend script fixes in advance
ScriptLen == 5

----------------------------------------------------------------------------
(* Error messages and their classification, gemini_service.py:526-528 *)

\* str.lower() on the words that occur in the modelled messages
Lower(w) ==
    CASE w = "Quota" -> "quota"
      [] w = "QUOTA" -> "quota"
      [] w = "Rate Limit" -> "rate limit"
      [] w = "RATE LIMIT" -> "rate limit"
      [] w = "Sure" -> "sure"
      [] w = "Here" -> "here"
      [] w = "Here's" -> "here's"
      [] w = "Of" -> "of"
      [] w = "I'll" -> "i'll"
      [] w = "Let" -> "let"
      [] w = "Is" -> "is"
      [] w = "Hope" -> "hope"
      [] OTHER -> w

\* sub in s, for a one-word sub
Contains(s, sub) == \E i \in 1..Len(s) : s[i] = sub

LowerSeq(s) == [i \in 1..Len(s) |-> Lower(s[i])]

\* "429" in error_str or "quota" in error_str.lower() or "rate limit" in error_str.lower()
IsQuotaError(error_str) ==
    \/ Contains(error_str, "429")
    \/ Contains(LowerSeq(error_str), "quota")
    \/ Contains(LowerSeq(error_str), "rate limit")

\* messages of the rate-limit and quota failures the modelled backend raises
QuotaMessages ==
    { <<"429", "Too Many Requests">>,
      <<"Resource", "Quota", "exceeded">>,
      <<"RATE LIMIT", "hit">> }

\* messages of its other failures
OtherMessages ==
    { <<"Deadline", "exceeded">>,
      <<"Unknown", "field", "response_mime_type">> }

\* the kinds of outcome of one generate_content call
Outcomes == {"ok", "quota", "other"}

\* what a call of the given kind of outcome raises (nothing when it replies)
MessagesOf(kind) ==
    CASE kind = "ok" -> { <<>> }
      [] kind = "quota" -> QuotaMessages
      [] kind = "other" -> OtherMessages

RECURSIVE SeqsOfLen(_, _)
SeqsOfLen(S, n) ==
    IF n = 0 THEN { <<>> }
    ELSE { Append(s, x) : s \in SeqsOfLen(S, n - 1), x \in S }

----------------------------------------------------------------------------
(* Dynamically typed values: what json.loads returns and the validator reads *)

JStr(s)  == [t |-> "str", s |-> s]
JNum(n)  == [t |-> "num", n |-> n]
JNull    == [t |-> "null"]
JBool(b) == [t |-> "bool", b |-> b]
JList(l) == [t |-> "list", l |-> l]
\* a dict is kept as its items in insertion order, keys unique
JDict(d) == [t |-> "dict", d |-> d]
Item(k, v) == [k |-> k, v |-> v]

HasKey(d, key) == \E i \in 1..Len(d) : d[i].k = key

\* dict.get(key, default)
DictGet(d, key, default) ==
    IF HasKey(d, key)
    THEN d[CHOOSE i \in 1..Len(d) : d[i].k = key].v
    ELSE default

\* d[key] = v : replaces the value in place, or appends a new item
DictSet(d, key, v) ==
    IF HasKey(d, key)
    THEN [i \in 1..Len(d) |-> IF d[i].k = key THEN Item(key, v) ELSE d[i]]
    ELSE Append(d, Item(key, v))

RECURSIVE Concat(_)
\* "".join(parts)
Concat(parts) ==
    IF parts = <<>> THEN <<>> ELSE Head(parts) \o Concat(Tail(parts))

RECURSIVE Join(_, _)
\* sep.join(parts)
Join(sep, parts) ==
    IF Len(parts) = 0 THEN <<>>
    ELSE IF Len(parts) = 1 THEN parts[1]
    ELSE parts[1] \o sep \o Join(sep, Tail(parts))

DigitChar(d) == CASE d = 0 -> "0" [] d = 1 -> "1" [] d = 2 -> "2" [] d = 3 -> "3"
                  [] d = 4 -> "4" [] d = 5 -> "5" [] d = 6 -> "6" [] d = 7 -> "7"
                  [] d = 8 -> "8" [] d = 9 -> "9"

RECURSIVE Digits(_)
\* str(n) for a natural number n
Digits(n) == IF n < 10 THEN <<DigitChar(n)>> ELSE Append(Digits(n \div 10), DigitChar(n % 10))

\* repr(s) for a str s: quoted, backslash and newline escaped
ReprStr(s) ==
    LET q == IF Contains(s, "'") /\ ~Contains(s, "\"") THEN "\"" ELSE "'"
        esc(c) == IF c = "\\" THEN <<"\\", "\\">>
                  ELSE IF c = "\n" THEN <<"\\", "n">>
                  ELSE IF c = q THEN <<"\\", c>>
                  ELSE <<c>>
    IN <<q>> \o Concat([i \in 1..Len(s) |-> esc(s[i])]) \o <<q>>

RECURSIVE FracRepr(_)
\* the fraction digits as repr(float) prints them: no trailing zeros, at least one digit
FracRepr(f) ==
    IF Len(f) > 1 /\ f[Len(f)] = "0" THEN FracRepr(SubSeq(f, 1, Len(f) - 1)) ELSE f

RECURSIVE Repr(_)
\* repr(v) of a value json.loads can return
Repr(v) ==
    CASE v.t = "str"  -> ReprStr(v.s)
      [] v.t = "num"  -> Digits(v.n)
      [] v.t = "float" -> Digits(v.i) \o <<".">> \o FracRepr(v.f)
      [] v.t = "null" -> <<"None">>
      [] v.t = "bool" -> IF v.b THEN <<"True">> ELSE <<"False">>
      [] v.t = "list" ->
            <<"[">> \o Join(<<",", " ">>, [i \in 1..Len(v.l) |-> Repr(v.l[i])]) \o <<"]">>
      [] v.t = "dict" ->
            <<"{">> \o Join(<<",", " ">>,
                            [i \in 1..Len(v.d) |->
                                ReprStr(v.d[i].k) \o <<":", " ">> \o Repr(v.d[i].v)])
                    \o <<"}">>

\* str(v): a str is itself, anything else is its repr
PyStr(v) == IF v.t = "str" THEN v.s ELSE Repr(v)

----------------------------------------------------------------------------
(* Text helpers: the str methods the parser uses, on token sequences *)

\* characters str.strip() and the regex class \s remove
IsSpace(c) == c \in {" ", "\n", "\t", "\r"}

IsDigit(c) == c \in {"0", "1", "2", "3", "4", "5", "6", "7", "8", "9"}

DigitVal(c) == CASE c = "0" -> 0 [] c = "1" -> 1 [] c = "2" -> 2 [] c = "3" -> 3
                 [] c = "4" -> 4 [] c = "5" -> 5 [] c = "6" -> 6 [] c = "7" -> 7
                 [] c = "8" -> 8 [] c = "9" -> 9

\* s[a-1:b] in Python terms: tokens a..b, empty when a > b
Slice(s, a, b) == IF a > b THEN <<>> ELSE SubSeq(s, a, b)

RECURSIVE SkipWs(_, _)
\* first position >= p that holds no whitespace (Len(s)+1 when none)
SkipWs(s, p) == IF p <= Len(s) /\ IsSpace(s[p]) THEN SkipWs(s, p + 1) ELSE p

RECURSIVE SkipWsBack(_, _)
\* last position <= p that holds no whitespace (0 when none)
SkipWsBack(s, p) == IF p >= 1 /\ IsSpace(s[p]) THEN SkipWsBack(s, p - 1) ELSE p

\* s.rstrip()
RStrip(s) == Slice(s, 1, SkipWsBack(s, Len(s)))

\* s.strip()
Strip(s) == Slice(s, SkipWs(s, 1), SkipWsBack(s, Len(s)))

\* s.count(c) for a one-character c
Count(s, c) == Cardinality({i \in 1..Len(s) : s[i] = c})

\* s.endswith(c) for a one-character c
EndsWith(s, c) == Len(s) > 0 /\ s[Len(s)] = c

\* s.find(c) as a 1-based position, 0 when absent
Find(s, c) == IF Contains(s, c) THEN CHOOSE i \in 1..Len(s) : s[i] = c /\ \A j \in 1..(i - 1) : s[j] # c
              ELSE 0

\* s.rfind(c) as a 1-based position, 0 when absent
RFind(s, c) == IF Contains(s, c) THEN CHOOSE i \in 1..Len(s) : s[i] = c /\ \A j \in (i + 1)..Len(s) : s[j] # c
               ELSE 0

\* s[p:].startswith(w) for a token sequence w, p 1-based
StartsAt(s, p, w) == p + Len(w) - 1 <= Len(s) /\ \A i \in 1..Len(w) : s[p + i - 1] = w[i]

RECURSIVE Replace(_, _, _)
\* s.replace(old, new): leftmost non-overlapping occurrences, old non-empty
Replace(s, old, new) ==
    IF s = <<>> THEN <<>>
    ELSE IF StartsAt(s, 1, old) THEN new \o Replace(Slice(s, Len(old) + 1, Len(s)), old, new)
    ELSE <<Head(s)>> \o Replace(Tail(s), old, new)

\* the smallest element of a non-empty set of integers
Min(S) == CHOOSE x \in S : \A y \in S : x <= y

----------------------------------------------------------------------------
(* json.loads (strict) on token sequences *)

JFloat(i, f) == [t |-> "float", i |-> i, f |-> f]

Fail == [ok |-> FALSE, v |-> JNull, p |-> 0]
Ok(v, p) == [ok |-> TRUE, v |-> v, p |-> p]

\* the characters a backslash escape yields, by the first character of the token
\* that follows the backslash; <<>> for an invalid escape
EscapeOf(e) ==
    CASE e = "\"" -> <<"\"">>
      [] e = "\\" -> <<"\\">>
      [] e = "/"  -> <<"/">>
      [] e = "n"  -> <<"\n">>
      [] e = "null" -> <<"\n", "ull">>
      [] e = "true" -> <<"\t", "rue">>
      [] e = "false" -> <<"\f", "alse">>
      [] e = "fix_recommendations" -> <<"\f", "ix_recommendations">>
      [] OTHER -> <<>>

RECURSIVE ScanString(_, _, _)
\* py_scanstring: p is the position after the opening quote
ScanString(s, p, acc) ==
    IF p > Len(s) THEN Fail
    ELSE IF s[p] = "\"" THEN Ok(acc, p + 1)
    ELSE IF s[p] = "\\" THEN
        IF p + 1 > Len(s) \/ EscapeOf(s[p + 1]) = <<>> THEN Fail
        ELSE ScanString(s, p + 2, acc \o EscapeOf(s[p + 1]))
    ELSE IF s[p] \in {"\n", "\t", "\r", "\f"} THEN Fail
    ELSE ScanString(s, p + 1, Append(acc, s[p]))

RECURSIVE DigitRun(_, _)
\* end (exclusive) of the run of digits that starts at p
DigitRun(s, p) == IF p <= Len(s) /\ IsDigit(s[p]) THEN DigitRun(s, p + 1) ELSE p

RECURSIVE DigitsVal(_)
DigitsVal(ds) == IF ds = <<>> THEN 0 ELSE 10 * DigitsVal(Slice(ds, 1, Len(ds) - 1)) + DigitVal(ds[Len(ds)])

\* a number: (0|[1-9]\d*)(\.\d+)? ; s[p] is a digit
ScanNumber(s, p) ==
    LET e == IF s[p] = "0" THEN p + 1 ELSE DigitRun(s, p)
        hasFrac == e + 1 <= Len(s) /\ s[e] = "." /\ IsDigit(s[e + 1])
    IN IF hasFrac
       THEN Ok(JFloat(DigitsVal(Slice(s, p, e - 1)),
                      FracRepr(Slice(s, e + 1, DigitRun(s, e + 1) - 1))),
               DigitRun(s, e + 1))
       ELSE Ok(JNum(DigitsVal(Slice(s, p, e - 1))), e)

RECURSIVE ParseValue(_, _)
RECURSIVE ObjectItems(_, _, _)
RECURSIVE ArrayItems(_, _, _)

\* the items of an object; s[p] is where a key must start
ObjectItems(s, p, acc) ==
    IF p > Len(s) \/ s[p] # "\"" THEN Fail
    ELSE LET k == ScanString(s, p + 1, <<>>) IN
         IF ~k.ok THEN Fail
         ELSE LET c == SkipWs(s, k.p) IN
              IF c > Len(s) \/ s[c] # ":" THEN Fail
              ELSE LET v == ParseValue(s, SkipWs(s, c + 1)) IN
                   IF ~v.ok THEN Fail
                   ELSE LET e == SkipWs(s, v.p)
                            d == DictSet(acc, k.v, v.v)
                        IN IF e > Len(s) THEN Fail
                           ELSE IF s[e] = "}" THEN Ok(JDict(d), e + 1)
                           ELSE IF s[e] = "," THEN ObjectItems(s, SkipWs(s, e + 1), d)
                           ELSE Fail

\* the items of an array; s[p] is where a value must start
ArrayItems(s, p, acc) ==
    LET v == ParseValue(s, p) IN
    IF ~v.ok THEN Fail
    ELSE LET e == SkipWs(s, v.p) IN
         IF e > Len(s) THEN Fail
         ELSE IF s[e] = "]" THEN Ok(JList(Append(acc, v.v)), e + 1)
         ELSE IF s[e] = "," THEN ArrayItems(s, SkipWs(s, e + 1), Append(acc, v.v))
         ELSE Fail

\* scan_once: the value that starts at p
ParseValue(s, p) ==
    IF p > Len(s) THEN Fail
    ELSE CASE s[p] = "\"" ->
                LET r == ScanString(s, p + 1, <<>>) IN IF r.ok THEN Ok(JStr(r.v), r.p) ELSE Fail
           [] s[p] = "{" ->
                LET q == SkipWs(s, p + 1) IN
                IF q <= Len(s) /\ s[q] = "}" THEN Ok(JDict(<<>>), q + 1) ELSE ObjectItems(s, q, <<>>)
           [] s[p] = "[" ->
                LET q == SkipWs(s, p + 1) IN
                IF q <= Len(s) /\ s[q] = "]" THEN Ok(JList(<<>>), q + 1) ELSE ArrayItems(s, q, <<>>)
           [] s[p] = "null"  -> Ok(JNull, p + 1)
           [] s[p] = "true"  -> Ok(JBool(TRUE), p + 1)
           [] s[p] = "false" -> Ok(JBool(FALSE), p + 1)
           [] IsDigit(s[p])  -> ScanNumber(s, p)
           [] OTHER -> Fail

\* json.loads(s): ok = no JSONDecodeError, v = the value
JsonLoads(s) ==
    LET r == ParseValue(s, SkipWs(s, 1)) IN
    IF r.ok /\ SkipWs(s, r.p) = Len(s) + 1 THEN [ok |-> TRUE, v |-> r.v]
    ELSE [ok |-> FALSE, v |-> JNull]


----------------------------------------------------------------------------
(* validate_response_schema, gemini_service.py:371-401 *)

K_summary  == <<"summary">>
K_mermaid  == <<"mermaid_code">>
K_issues   == <<"detected_issues">>
K_fixes    == <<"fix_recommendations">>

required_fields == {K_summary, K_mermaid, K_issues, K_fixes}

DefaultSummary == <<"No summary generated">>

\* 'sequenceDiagram\n    participant A\n    participant B\n    A->>B: Analysis incomplete'
DefaultMermaid ==
    <<"sequenceDiagram", "\n", "    ", "participant", " ", "A", "\n", "    ", "participant",
      " ", "B", "\n", "    ", "A", "->>", "B", ":", " ", "Analysis incomplete">>

\* a variant that also rejects the empty dict
IsDict_AndNotEmpty(data) == data.t = "dict" /\ data.d # <<>>

\* isinstance(data, dict)
IsDict(data) == data.t = "dict"

\* a variant that falls back to the default for every value that is no string
StrField_DefaultUnlessStr(d, key, default) ==
    IF DictGet(d, key, JStr(default)).t = "str" THEN DictGet(d, key, JStr(default)).s ELSE default

\* str(data.get(key, default))
StrField(d, key, default) == PyStr(DictGet(d, key, JStr(default)))

\* data.get(key, []) if isinstance(data.get(key), list) else []
ListField(d, key) ==
    IF DictGet(d, key, JNull).t = "list" THEN DictGet(d, key, JList(<<>>)).l ELSE <<>>

\* a variant that leaves the elements as they are
StrEach_NoCoercion(l) == l

\* [str(x) for x in l]
StrEach(l) == [i \in 1..Len(l) |-> JStr(PyStr(l[i]))]

\* the dict built at lines 390-399; only called on a dict
ValidatedDict(d) ==
    JDict(<< Item(K_summary, JStr(StrField(d, K_summary, DefaultSummary))),
             Item(K_mermaid, JStr(StrField(d, K_mermaid, DefaultMermaid))),
             Item(K_issues,  JList(StrEach(ListField(d, K_issues)))),
             Item(K_fixes,   JList(StrEach(ListField(d, K_fixes)))) >>)

\* the outcome of validate_response_schema(data): the returned dict, or the raise
ValidateResponseSchema(data) ==
    IF ~IsDict(data)
    THEN [raised |-> TRUE,  value |-> JNull]
    ELSE [raised |-> FALSE, value |-> ValidatedDict(data.d)]


----------------------------------------------------------------------------
(* parse_gemini_response, gemini_service.py:181-368 *)

Lit(w) == [k |-> "lit", w |-> w]
Opt(w) == [k |-> "opt", w |-> w]
WsStar == [k |-> "ws*", w |-> ""]
WsPlus == [k |-> "ws+", w |-> ""]

\* lines 203-212, each pattern anchored at the start and matched ignoring case
prefixes_to_remove ==
    << <<Lit("sure"), Opt(","), WsStar>>,
       <<Lit("here"), WsPlus, Lit("is"), WsPlus, Lit("your"), WsPlus>>,
       <<Lit("here's"), WsPlus, Lit("your"), WsPlus>>,
       <<Lit("here"), WsPlus, Lit("is"), WsPlus, Lit("the"), WsPlus>>,
       <<Lit("here's"), WsPlus, Lit("the"), WsPlus>>,
       <<Lit("of"), WsPlus, Lit("course"), Opt(","), WsStar>>,
       <<Lit("i'll"), WsPlus>>,
       <<Lit("let"), WsPlus, Lit("me"), WsPlus>> >>

RECURSIVE MatchPat(_, _, _, _)
\* end (exclusive) of the match of pat[i..] at s[p], 0 when it does not match
MatchPat(pat, i, s, p) ==
    IF i > Len(pat) THEN p
    ELSE CASE pat[i].k = "lit" ->
                IF p <= Len(s) /\ Lower(s[p]) = pat[i].w THEN MatchPat(pat, i + 1, s, p + 1) ELSE 0
           [] pat[i].k = "opt" ->
                IF p <= Len(s) /\ s[p] = pat[i].w /\ MatchPat(pat, i + 1, s, p + 1) # 0
                THEN MatchPat(pat, i + 1, s, p + 1)
                ELSE MatchPat(pat, i + 1, s, p)
           [] pat[i].k = "ws*" -> MatchPat(pat, i + 1, s, SkipWs(s, p))
           [] pat[i].k = "ws+" ->
                IF p <= Len(s) /\ IsSpace(s[p]) THEN MatchPat(pat, i + 1, s, SkipWs(s, p)) ELSE 0

\* re.sub(prefix, '', text, flags=re.IGNORECASE) for an anchored prefix
SubPrefix(pat, text) ==
    LET e == MatchPat(pat, 1, text, 1) IN IF e = 0 THEN text ELSE Slice(text, e, Len(text))

RECURSIVE RemovePrefixesFrom(_, _)
RemovePrefixesFrom(i, text) ==
    IF i > Len(prefixes_to_remove) THEN text
    ELSE RemovePrefixesFrom(i + 1, SubPrefix(prefixes_to_remove[i], text))

\* the loop at lines 213-214
RemovePrefixes(text) == RemovePrefixesFrom(1, text)

\* the alternatives of the suffix pattern at line 217, lower-cased
SuffixPhrases ==
    { <<"is", " ", "there", " ", "anything", " ", "else">>,
      <<"let", " ", "me", " ", "know">>,
      <<"hope", " ", "this", " ", "helps">> }

StartsAtCI(s, p, w) ==
    p + Len(w) - 1 <= Len(s) /\ \A i \in 1..Len(w) : Lower(s[p + i - 1]) = w[i]

\* r'\.\s*(Is there anything else|Let me know|Hope this helps).*$' matches at i:
\* '.' does not match a newline and '$' matches at the end or before a final newline
SuffixMatchesAt(s, i) ==
    /\ s[i] = "."
    /\ \E w \in SuffixPhrases :
          LET j == SkipWs(s, i + 1)
              k == j + Len(w)
          IN /\ StartsAtCI(s, j, w)
             /\ \A m \in k..Len(s) : s[m] = "\n" => m = Len(s)

\* re.sub of line 217: the leftmost match runs to the end of the text
RemoveSuffix(text) ==
    LET M == {i \in 1..Len(text) : SuffixMatchesAt(text, i)} IN
    IF M = {} THEN text
    ELSE Slice(text, 1, Min(M) - 1) \o (IF text[Len(text)] = "\n" THEN <<"\n">> ELSE <<>>)

\* lines 200-218: the text the direct parse is given
CleanText(response_text) == Strip(RemoveSuffix(RemovePrefixes(Strip(response_text))))

\* the pattern of line 230 (fence, optional json, \s*, group {.*?}, \s*, fence; DOTALL)
\* matched at the fence at st; "FENCE" is the token of three backquotes:
\* the position pair <<q, e>> of group 1, <<0, 0>> when it does not match there
FenceAt(s, st) ==
    LET a == IF st + 1 <= Len(s) /\ s[st + 1] = "json" THEN st + 2 ELSE st + 1
        q == SkipWs(s, a)
        E == {e \in (q + 1)..Len(s) :
                 s[e] = "}" /\ SkipWs(s, e + 1) <= Len(s) /\ s[SkipWs(s, e + 1)] = "FENCE"}
    IN IF s[st] = "FENCE" /\ q <= Len(s) /\ s[q] = "{" /\ E # {} THEN <<q, Min(E)>> ELSE <<0, 0>>

\* re.search of line 230: [found, group]
FenceSearch(s) ==
    LET M == {st \in 1..Len(s) : FenceAt(s, st) # <<0, 0>>} IN
    IF M = {} THEN [found |-> FALSE, group |-> <<>>]
    ELSE [found |-> TRUE, group |-> Slice(s, FenceAt(s, Min(M))[1], FenceAt(s, Min(M))[2])]

RECURSIVE BraceScan(_, _, _, _, _)
\* the loop at lines 252-269: json_end, 0 when the loop ends without a match
BraceScan(s, i, brace_count, in_string, escape_next) ==
    IF i > Len(s) THEN 0
    ELSE IF escape_next THEN BraceScan(s, i + 1, brace_count, in_string, FALSE)
    ELSE IF s[i] = "\\" THEN BraceScan(s, i + 1, brace_count, in_string, TRUE)
    ELSE IF s[i] = "\"" THEN BraceScan(s, i + 1, brace_count, ~in_string, FALSE)
    ELSE IF ~in_string /\ s[i] = "{" THEN BraceScan(s, i + 1, brace_count + 1, in_string, FALSE)
    ELSE IF ~in_string /\ s[i] = "}" THEN
        IF brace_count - 1 = 0 THEN i
        ELSE BraceScan(s, i + 1, brace_count - 1, in_string, FALSE)
    ELSE BraceScan(s, i + 1, brace_count, in_string, FALSE)

\* lines 282-291 on the right-stripped text that lacks closing braces
CloseIncomplete(js0) ==
    LET js1 == IF EndsWith(RStrip(js0), ",") THEN Slice(RStrip(js0), 1, Len(RStrip(js0)) - 1)
               ELSE js0
        last_quote == RFind(js1, "\"")
        js2 == IF /\ Contains(js1, "\"")
                  /\ ~EndsWith(RStrip(js1), "\"")
                  /\ last_quote > 1
                  /\ Count(Slice(js1, 1, last_quote - 1), "\"") % 2 = 1
               THEN Slice(js1, 1, last_quote) \o <<"\"">>
               ELSE js1
    IN js2

RECURSIVE Times(_, _)
\* s * n
Times(s, n) == IF n <= 0 THEN <<>> ELSE s \o Times(s, n - 1)

\* lines 271-293: the candidate cut at json_end, or closed when it has no end
Candidate(json_str, json_end) ==
    IF json_end > 0 THEN Slice(json_str, 1, json_end)
    ELSE LET js == RStrip(json_str) IN
         IF ~EndsWith(js, "}") /\ Count(js, "{") > Count(js, "}")
         THEN CloseIncomplete(js) \o Times(<<"}">>, Count(js, "{") - Count(js, "}"))
         ELSE js

RECURSIVE SubCommaBefore(_, _)
\* re.sub(r',\s*X', 'X', s) for a closing character X
SubCommaBefore(s, closer) ==
    IF s = <<>> THEN <<>>
    ELSE IF s[1] = "," /\ SkipWs(s, 2) <= Len(s) /\ s[SkipWs(s, 2)] = closer
    THEN <<closer>> \o SubCommaBefore(Slice(s, SkipWs(s, 2) + 1, Len(s)), closer)
    ELSE <<s[1]>> \o SubCommaBefore(Tail(s), closer)

\* re.sub(r',\s*$', '', s)
SubTrailingComma(s) ==
    LET e == SkipWsBack(s, Len(s)) IN
    IF e >= 1 /\ s[e] = "," THEN Slice(s, 1, e - 1) ELSE s

\* lines 296-298
FixCommon(json_str) == SubTrailingComma(SubCommaBefore(SubCommaBefore(json_str, "}"), "]"))

\* position of the value's opening character after '"key"\s*:\s*' matched at i, else 0
KeyValueStart(s, i, key, opener) ==
    IF StartsAt(s, i, <<"\"", key, "\"">>)
    THEN LET c == SkipWs(s, i + 3) IN
         IF c <= Len(s) /\ s[c] = ":"
         THEN LET o == SkipWs(s, c + 1) IN IF o <= Len(s) /\ s[o] = opener THEN o ELSE 0
         ELSE 0
    ELSE 0

\* first position after o that holds c, 0 when none
NextAfter(s, o, c) ==
    LET P == {j \in (o + 1)..Len(s) : s[j] = c} IN IF P = {} THEN 0 ELSE Min(P)

\* re.search(r'"key"\s*:\s*"([^"]*(?:\\.[^"]*)*)"', s): [found, group]
\* the group runs from the opening quote to the next quote character
SearchStringField(s, key) ==
    LET M == {i \in 1..Len(s) :
                 KeyValueStart(s, i, key, "\"") # 0
                 /\ NextAfter(s, KeyValueStart(s, i, key, "\""), "\"") # 0}
    IN IF M = {} THEN [found |-> FALSE, group |-> <<>>]
       ELSE LET o == KeyValueStart(s, Min(M), key, "\"") IN
            [found |-> TRUE, group |-> Slice(s, o + 1, NextAfter(s, o, "\"") - 1)]

\* re.search(r'"key"\s*:\s*\[(.*?)\]', s, re.DOTALL): [found, group]
SearchArrayField(s, key) ==
    LET M == {i \in 1..Len(s) :
                 KeyValueStart(s, i, key, "[") # 0
                 /\ NextAfter(s, KeyValueStart(s, i, key, "["), "]") # 0}
    IN IF M = {} THEN [found |-> FALSE, group |-> <<>>]
       ELSE LET o == KeyValueStart(s, Min(M), key, "[") IN
            [found |-> TRUE, group |-> Slice(s, o + 1, NextAfter(s, o, "]") - 1)]

RECURSIVE FindAllQuoted(_)
\* re.findall(r'"([^"]*)"', s)
FindAllQuoted(s) ==
    LET q1 == Find(s, "\"") IN
    IF q1 = 0 THEN <<>>
    ELSE LET q2 == NextAfter(s, q1, "\"") IN
         IF q2 = 0 THEN <<>>
         ELSE <<Slice(s, q1 + 1, q2 - 1)>> \o FindAllQuoted(Slice(s, q2 + 1, Len(s)))

RECURSIVE StripQuotes(_)
\* s.strip('"')
StripQuotes(s) ==
    IF s # <<>> /\ s[1] = "\"" THEN StripQuotes(Tail(s))
    ELSE IF s # <<>> /\ s[Len(s)] = "\"" THEN StripQuotes(Slice(s, 1, Len(s) - 1))
    ELSE s

\* [i.strip().strip('"') for i in re.findall(r'"([^"]*)"', group)]
ArrayElements(group) ==
    LET found == FindAllQuoted(group) IN
    [i \in 1..Len(found) |-> JStr(StripQuotes(Strip(found[i])))]

\* a variant that builds nothing unless it finds a summary
ManualExtract_NeedsSummary(json_str) ==
    LET sm == SearchStringField(json_str, "summary") IN
    IF sm.found
    THEN <<Item(K_summary, JStr(Replace(sm.group, <<"\\", "\"">>, <<"\"">>)))>>
    ELSE <<>>

\* lines 310-333: the dict the manual extraction builds
ManualExtract(json_str) ==
    LET sm == SearchStringField(json_str, "summary")
        mm == SearchStringField(json_str, "mermaid_code")
        im == SearchArrayField(json_str, "detected_issues")
        fm == SearchArrayField(json_str, "fix_recommendations")
        r1 == IF sm.found
              THEN <<Item(K_summary, JStr(Replace(sm.group, <<"\\", "\"">>, <<"\"">>)))>>
              ELSE <<>>
        r2 == IF mm.found
              THEN <<Item(K_mermaid,
                          JStr(Replace(Replace(mm.group, <<"\\", "\"">>, <<"\"">>),
                                       <<"\\", "n">>, <<"\n">>)))>>
              ELSE <<>>
        r3 == IF im.found THEN <<Item(K_issues, JList(ArrayElements(im.group)))>> ELSE <<>>
        r4 == IF fm.found THEN <<Item(K_fixes, JList(ArrayElements(fm.group)))>> ELSE <<>>
    IN r1 \o r2 \o r3 \o r4

RECURSIVE FindAllFlat(_)
\* re.findall(r'\{[^{}]*\}', s, re.DOTALL)
FindAllFlat(s) ==
    LET o == Find(s, "{") IN
    IF o = 0 THEN <<>>
    ELSE LET B == {j \in (o + 1)..Len(s) : s[j] \in {"{", "}"}} IN
         IF B # {} /\ s[Min(B)] = "}"
         THEN <<Slice(s, o, Min(B))>> \o FindAllFlat(Slice(s, Min(B) + 1, Len(s)))
         ELSE FindAllFlat(Slice(s, o + 1, Len(s)))

Returned(v, how) == [raised |-> FALSE, value |-> v, via |-> how]
Raised == [raised |-> TRUE, value |-> JNull, via |-> "none"]

RECURSIVE ScanCandidates(_)
\* lines 343-364: the first repaired candidate that parses, else the raise
ScanCandidates(cands) ==
    IF cands = <<>> THEN Raised
    ELSE LET fixed == SubCommaBefore(SubCommaBefore(Head(cands), "}"), "]") IN
         IF JsonLoads(fixed).ok THEN Returned(JsonLoads(fixed).v, "scan")
         ELSE ScanCandidates(Tail(cands))

\* lines 244-298: json_str as it is handed to json.loads and to the manual extraction
JsonStrOf(text) ==
    LET json_str0 == Slice(text, Find(text, "{"), Len(text))
    IN FixCommon(Candidate(json_str0, BraceScan(json_str0, 1, 0, FALSE, FALSE)))

\* lines 241-339 for a text that holds a '{'
ExtractObject(text) ==
    LET json_str == JsonStrOf(text)
        result == ManualExtract(json_str)
    IN IF JsonLoads(json_str).ok THEN Returned(JsonLoads(json_str).v, "extract")
       ELSE IF result # <<>> THEN Returned(JDict(result), "manual")
       ELSE Raised

\* the outcome of parse_gemini_response(response_text): the value returned and the
\* return statement that returned it, or the raise of GeminiAnalysisError
ParseGeminiResponse(response_text) ==
    LET text == CleanText(response_text)
        fence == FenceSearch(text)
    IN IF JsonLoads(text).ok THEN Returned(JsonLoads(text).v, "direct")
       ELSE IF fence.found /\ JsonLoads(Strip(fence.group)).ok
            THEN Returned(JsonLoads(Strip(fence.group)).v, "fence")
       ELSE IF Find(text, "{") # 0 /\ ~ExtractObject(text).raised THEN ExtractObject(text)
       ELSE ScanCandidates(FindAllFlat(text))


----------------------------------------------------------------------------
(* fetch_github_readme, gemini_service.py:24-72 *)

RECURSIVE RStripSlash(_)
\* repo_url.rstrip('/')
RStripSlash(s) == IF EndsWith(s, "/") THEN RStripSlash(Slice(s, 1, Len(s) - 1)) ELSE s

\* lines 39-47: the URL holds github.com and, the scheme removed, at least three
\* parts between its slashes ("https://" and "http://" are one token each)
UrlFormatOk(repo_url) ==
    LET u == RStripSlash(Strip(repo_url))
        rest == SelectSeq(u, LAMBDA w : w \notin {"https://", "http://"})
    IN Contains(u, "github.com") /\ Count(rest, "/") + 1 >= 3

\* the message of the error fetch_github_readme raises
FetchErrorText(repo_url, main, master) ==
    LET u == RStripSlash(Strip(repo_url)) IN
    IF ~Contains(u, "github.com") THEN <<"Invalid GitHub URL provided">>
    ELSE IF ~UrlFormatOk(repo_url) THEN <<"Invalid GitHub URL format">>
    ELSE IF main = "exc" \/ (main = "404" /\ master = "exc")
         THEN <<"Network error fetching GitHub repository: ", "Connection refused">>
    ELSE <<"Could not fetch README from ">> \o u
         \o <<". ", "Ensure the repository is public and has a README.">>

\* the outcome of fetch_github_readme for a URL that is well-formed or not and the
\* answers of the main and master requests ("exc" = requests.RequestException):
\* the requests.get calls made, and whether it raised
FetchGithubReadme(url_ok, main, master) ==
    IF ~url_ok THEN [raised |-> TRUE, calls |-> <<>>]
    ELSE IF main = "exc" THEN [raised |-> TRUE, calls |-> <<"readme">>]
    ELSE IF main = "404"
         THEN [raised |-> master # "200", calls |-> <<"readme", "readme">>]
    ELSE [raised |-> main # "200", calls |-> <<"readme">>]

----------------------------------------------------------------------------
(* configure_gemini_model, gemini_service.py:75-178 *)

preferred_flash_models ==
    <<"gemini-2.0-flash-exp", "gemini-2.0-flash", "gemini-1.5-flash-002",
      "gemini-1.5-flash", "gemini-1.5-flash-8b">>

\* 'flash' in model_name.lower()
IsFlash(model_name) ==
    model_name \in {"gemini-2.0-flash-exp", "gemini-2.0-flash", "gemini-1.5-flash-002",
                    "gemini-1.5-flash", "gemini-1.5-flash-8b", "gemini-Flash-latest"}

\* lines 99-115: a listed model is kept when it has no supported_generation_methods
\* attribute or when 'generateContent' is among them
Keeps(m) == ~m.has_methods \/ m.supports_generate

\* available_model_names after lines 96-125
AvailableModelNames(listing) ==
    IF ~listing.ok THEN <<>>
    ELSE LET kept == SelectSeq(listing.models, Keeps) IN [i \in 1..Len(kept) |-> kept[i].name]

\* flash_models after lines 96-125
FlashModels(listing) == SelectSeq(AvailableModelNames(listing), IsFlash)

\* a variant that tries the discovered identifiers first, flash or not
TryOrder_AvailableFirst(listing) ==
    AvailableModelNames(listing) \o preferred_flash_models

\* the identifiers in the order lines 138-168 try them
TryOrder(listing) ==
    FlashModels(listing) \o preferred_flash_models \o AvailableModelNames(listing)

\* line 173: the number of available identifiers the error message names
reported_models == 15

\* a variant that names every available identifier
NoModelText_All(available_model_names) ==
    <<"Could not find any working Gemini model. ", "Available models: ">>
    \o Join(<<", ">>, [i \in 1..Len(available_model_names) |-> <<available_model_names[i]>>])
    \o <<". ">>

\* the message of the error raised at line 178
NoModelText(available_model_names) ==
    <<"Could not find any working Gemini model. ">>
    \o (IF available_model_names # <<>>
        THEN <<"Available models: ">>
             \o Join(<<", ">>, [i \in 1..Min({Len(available_model_names), reported_models}) |->
                                   <<available_model_names[i]>>])
             \o <<". ">>
        ELSE <<"No models found. Please check your API key permissions. ">>)
    \o <<"Flash models (gemini-*-flash) are recommended for free tier (10x higher rate limits).">>

\* the message of the error raised at lines 89-91
NoKeyText == <<"Gemini API key not configured. Set GEMINI_API_KEY in .env">>

\* a variant that lists the models before it looks at the key
ConfigureGeminiModel_ListFirst(key, listing, constructible) ==
    LET order == TryOrder(listing)
        W == {i \in 1..Len(order) : order[i] \in constructible}
    IN IF ~key THEN [raised |-> "config", model |-> "none", calls |-> <<"list_models">>,
                     tried |-> <<>>, msg |-> NoKeyText]
       ELSE IF W = {} THEN [raised |-> "nomodel", model |-> "none", calls |-> <<"list_models">>,
                            tried |-> order, msg |-> NoModelText(AvailableModelNames(listing))]
       ELSE [raised |-> "none", model |-> order[Min(W)], calls |-> <<"list_models">>,
             tried |-> SubSeq(order, 1, Min(W)), msg |-> <<>>]

\* the outcome of configure_gemini_model when the backend answers list_models with
\* listing and GenerativeModel succeeds on the identifiers in constructible: the
\* model returned, the network calls made, the identifiers GenerativeModel was called
\* on, in order, and the message of the error raised
ConfigureGeminiModel(key, listing, constructible) ==
    LET order == TryOrder(listing)
        W == {i \in 1..Len(order) : order[i] \in constructible}
    IN IF ~key THEN [raised |-> "config", model |-> "none", calls |-> <<>>,
                     tried |-> <<>>, msg |-> NoKeyText]
       ELSE IF W = {} THEN [raised |-> "nomodel", model |-> "none", calls |-> <<"list_models">>,
                            tried |-> order, msg |-> NoModelText(AvailableModelNames(listing))]
       ELSE [raised |-> "none", model |-> order[Min(W)], calls |-> <<"list_models">>,
             tried |-> SubSeq(order, 1, Min(W)), msg |-> <<>>]

----------------------------------------------------------------------------
(* The README reduction of perform_deep_analysis, gemini_service.py:435-468 *)
(* A README is a sequence of runs [c, n]: the character c repeated n >= 1   *)
(* times, so that texts of many hundred characters stay short sequences.   *)

max_readme_length == 800

\* lines 451 and 461: the index below which every line is considered
first_lines == 15

\* line 458: a partial line is taken only if more than this many characters are left
min_partial == 50

\* len('...')
ellipsis_length == 3

Run(c, n) == [c |-> c, n |-> n]

RECURSIVE RLen(_)
\* len(s)
RLen(s) == IF s = <<>> THEN 0 ELSE Head(s).n + RLen(Tail(s))

RECURSIVE RTake(_, _)
\* s[:k]
RTake(s, k) ==
    IF k <= 0 \/ s = <<>> THEN <<>>
    ELSE IF Head(s).n <= k THEN <<Head(s)>> \o RTake(Tail(s), k - Head(s).n)
    ELSE <<Run(Head(s).c, k)>>

RECURSIVE RSplitFrom(_, _)
\* s.split('\n') continued: cur is the line collected so far
RSplitFrom(s, cur) ==
    IF s = <<>> THEN <<cur>>
    ELSE IF Head(s).c = "\n"
         THEN <<cur>> \o [i \in 1..(Head(s).n - 1) |-> <<>>] \o RSplitFrom(Tail(s), <<>>)
    ELSE RSplitFrom(Tail(s), Append(cur, Head(s)))

\* readme_content.split('\n')
RSplit(s) == RSplitFrom(s, <<>>)

RECURSIVE RJoin(_)
\* '\n'.join(lines)
RJoin(lines) ==
    IF lines = <<>> THEN <<>>
    ELSE IF Len(lines) = 1 THEN lines[1]
    ELSE lines[1] \o <<Run("\n", 1)>> \o RJoin(Tail(lines))

RECURSIVE RLStrip(_)
RLStrip(s) == IF s # <<>> /\ IsSpace(Head(s).c) THEN RLStrip(Tail(s)) ELSE s

\* line.strip().startswith('#')
IsHeading(line) == RLStrip(line) # <<>> /\ Head(RLStrip(line)).c = "#"

\* s.rsplit('.', 1)[0]: what stands before the last '.', all of s when it has none
RBeforeLastDot(s) ==
    LET D == {i \in 1..Len(s) : s[i].c = "."} IN
    IF D = {} THEN s
    ELSE LET d == CHOOSE i \in D : \A j \in D : j <= i IN
         SubSeq(s, 1, d - 1) \o (IF s[d].n > 1 THEN <<Run(".", s[d].n - 1)>> ELSE <<>>)

RECURSIVE EssentialLines(_, _, _, _)
\* lines 447-463: the loop from index i (0-based) on; the value of essential_lines
\* when the loop is left. The first line that does not fit ends the loop (line 460),
\* as does the first line past first_lines that is no heading (line 463)
EssentialLines(lines, i, essential_lines, char_count) ==
    IF i >= Len(lines) \/ char_count >= max_readme_length THEN essential_lines
    ELSE LET line == lines[i + 1] IN
         IF IsHeading(line) \/ i < first_lines
         THEN IF char_count + RLen(line) + 1 <= max_readme_length
              THEN EssentialLines(lines, i + 1, Append(essential_lines, line),
                                  char_count + RLen(line) + 1)
              ELSE IF max_readme_length - char_count > min_partial
                   THEN Append(essential_lines, RTake(line, max_readme_length - char_count))
                   ELSE essential_lines
         ELSE essential_lines

\* a variant that hands the README on as it is
ReduceReadme_Whole(text) == text

\* lines 437-468: readme_content after the reduction
ReduceReadme(text) ==
    IF RLen(text) > max_readme_length
    THEN LET joined == RJoin(EssentialLines(RSplit(text), 0, <<>>, 0)) IN
         IF RLen(joined) > max_readme_length
         THEN RBeforeLastDot(RTake(joined, max_readme_length)) \o <<Run(".", ellipsis_length)>>
         ELSE joined
    ELSE text

----------------------------------------------------------------------------
(* The retry loop of perform_deep_analysis, gemini_service.py:494-542 *)

max_retries == 1

\* the value retry_delay is initialised to
RETRY_DELAY == 90

\* a variant that retries whatever the failure was
HandlerDecision_RetryAny(error_str, att) ==
    IF att < max_retries THEN "sleep" ELSE "quota"

\* a variant that sleeps and goes on after every failure
HandlerDecision_SleepAlways(error_str, att) == "sleep"

\* lines 526-542: what the handler does with the exception of attempt att
HandlerDecision(error_str, att) ==
    IF IsQuotaError(error_str)
    THEN (IF att < max_retries - 1 THEN "sleep" ELSE "quota")
    ELSE "reraise"


----------------------------------------------------------------------------
(* The environment: reply texts the backend can return, and where they come from *)

\* longest list the generated replies carry
MaxItems == 2

DumpStr(s) ==
    LET esc(c) == IF c = "\"" THEN <<"\\", "\"">>
                  ELSE IF c = "\\" THEN <<"\\", "\\">>
                  ELSE IF c = "\n" THEN <<"\\", "n">>
                  ELSE <<c>>
    IN <<"\"">> \o Concat([i \in 1..Len(s) |-> esc(s[i])]) \o <<"\"">>

RECURSIVE Dumps(_, _)
\* the JSON text of v; an object's items go on one line, or one per line
Dumps(v, lines) ==
    CASE v.t = "str"  -> DumpStr(v.s)
      [] v.t = "num"  -> Digits(v.n)
      [] v.t = "null" -> <<"null">>
      [] v.t = "bool" -> IF v.b THEN <<"true">> ELSE <<"false">>
      [] v.t = "list" ->
            <<"[">> \o Join(<<",", " ">>, [i \in 1..Len(v.l) |-> Dumps(v.l[i], lines)]) \o <<"]">>
      [] v.t = "dict" ->
            LET items == [i \in 1..Len(v.d) |->
                             DumpStr(v.d[i].k) \o <<":", " ">> \o Dumps(v.d[i].v, lines)]
            IN IF lines /\ Len(items) > 0
               THEN <<"{", "\n", " ">> \o Join(<<",", "\n", " ">>, items) \o <<"\n", "}">>
               ELSE <<"{">> \o Join(<<",", " ">>, items) \o <<"}">>

RECURSIVE SeqsUpTo(_, _)
SeqsUpTo(S, n) == IF n = 0 THEN { <<>> } ELSE SeqsUpTo(S, n - 1) \cup SeqsOfLen(S, n)

Str_App       == <<"App">>
Str_LetMeKnow == <<"Done", ".", " ", "Let", " ", "me", " ", "know">>
Str_Quoted    == <<"say", " ", "\"", "hi", "\"">>
Str_Lines     == <<"L1", "\n", "L2">>
Str_Hope      == <<"b", ".", " ", "Hope", " ", "this", " ", "helps">>
Str_Bracket   == <<"c", "]">>

MaybeItem(k, values) == { <<>> } \cup { <<Item(k, v)>> : v \in values }

ElemValues == { JStr(<<"a">>), JStr(Str_Hope), JStr(Str_Bracket) }

SummaryValues == { JStr(<<>>), JStr(Str_App), JStr(Str_LetMeKnow), JStr(Str_Quoted),
                   JStr(Str_Lines), JNull, JNum(7) }
MermaidValues == { JStr(<<>>), JStr(<<"graph", "\n", "A">>) }
IssuesValues  == { JList(l) : l \in SeqsUpTo(ElemValues, MaxItems) } \cup { JStr(<<"a">>) }
FixesValues   == { JList(<<>>), JList(<<JStr(<<"f">>)>>) }

\* objects of the expected shape, any field absent or mistyped
ReplyObjects ==
    { JDict(s \o m \o i \o f) :
        s \in MaybeItem(K_summary, SummaryValues), m \in MaybeItem(K_mermaid, MermaidValues),
        i \in MaybeItem(K_issues, IssuesValues), f \in MaybeItem(K_fixes, FixesValues) }

ReplyValues ==
    ReplyObjects \cup { JNum(7), JNull, JStr(Str_LetMeKnow), JList(<<JStr(<<"a">>)>>),
                        JList(<<>>), JBool(TRUE) }

Reply(text, kind, src) == [text |-> text, origin |-> [kind |-> kind, src |-> src]]

\* replies that are valid JSON, nothing before or after
JsonReplies ==
    { Reply(Dumps(v, lines), "json", v) : v \in ReplyValues, lines \in BOOLEAN }

\* what is left of an element that the cut fell in or before
CutTails == { <<>>, <<",">>, <<",", " ">>, <<",", " ", "\"", "x">>,
              <<",", " ", "\"", "x", ".", " ", "y">> }

\* an object cut inside detected_issues after the complete elements done;
\* src holds the fields that were complete before the cut
TruncatedReplies ==
    { Reply(<<"{">> \o Join(<<",", " ">>,
                            [i \in 1..Len(head) |->
                                DumpStr(head[i].k) \o <<":", " ">> \o Dumps(head[i].v, FALSE)]
                            \o << DumpStr(K_issues) \o <<":", " ", "[">>
                                  \o Join(<<",", " ">>, [i \in 1..Len(done) |-> Dumps(done[i], FALSE)])
                                  \o tail >>),
            "truncated",
            JDict(head \o <<Item(K_issues, JList(done))>>)) :
        head \in { <<Item(K_summary, s)>> \o m :
                      s \in {JStr(Str_App), JStr(Str_Quoted), JStr(Str_LetMeKnow)},
                      m \in MaybeItem(K_mermaid, MermaidValues) },
        done \in SeqsUpTo(ElemValues, MaxItems) \ { <<>> },
        tail \in CutTails }

WrapObjects ==
    { JDict(<<Item(K_summary, JStr(Str_App)), Item(K_issues, JList(<<JStr(<<"a">>)>>))>>),
      JDict(<<Item(K_summary, JStr(Str_Quoted))>>),
      JDict(<<>>) }

Prefixes == { <<>>, <<"Sure", ",", " ">>,
              <<"Sure", ",", " ", "here", " ", "is", " ", "your", " ", "analysis", ":", "\n">>,
              <<"Here's", " ", "the", " ">>,
              <<"Of", " ", "course", ",", " ", "Let", " ", "me", " ", "show", ":", " ">> }

Suffixes == { <<>>, <<".", " ", "Hope", " ", "this", " ", "helps", "!">>,
              <<"\n", "Done", ".", "\n", "Let", " ", "me", " ", "know", " ", "more">> }

\* a JSON object with conversational text and a code fence around it
WrappedReplies ==
    { Reply(pre \o (IF fenced THEN <<"FENCE", "json", "\n">> ELSE <<>>)
                \o Dumps(v, FALSE)
                \o (IF fenced THEN <<"\n", "FENCE">> ELSE <<>>) \o suf,
            "wrapped", v) :
        pre \in Prefixes, suf \in Suffixes, fenced \in BOOLEAN, v \in WrapObjects }
    \ JsonReplies

\* replies that hold no JSON object of the expected shape
ProseReplies ==
    { Reply(<<"I", " ", "cannot", " ", "help">>, "prose", JNull),
      Reply(<<"{", " ", "bad", " ", "{", "\"", "other", "\"", ":", " ", "7", ",", "}">>, "prose", JNull),
      Reply(<<"{", "summary", ":", " ", "App", "}">>, "prose", JNull),
      Reply(<<"{", "\"", "fix_recommendations", "\"", ":", " ", "[", "\"", "f", "\"", "]", ",", " ", "oops">>,
            "prose", JNull) }

\* the replies the parser is checked on
ParseInputs == JsonReplies \cup TruncatedReplies \cup WrappedReplies \cup ProseReplies

\* the replies the backend of the whole pipeline can return
PipelineReplies ==
    { Reply(<<>>, "empty", JNull),
      Reply(<<"I", " ", "cannot", " ", "help">>, "prose", JNull) }
    \cup { Reply(Dumps(v, FALSE), "json", v) :
             v \in { JNum(7),
                     JDict(<<>>),
                     JDict(<<Item(K_summary, JNull), Item(K_mermaid, JStr(<<>>)),
                             Item(K_issues, JList(<<JNum(7)>>))>>),
                     JDict(<<Item(K_summary, JStr(Str_LetMeKnow))>>),
                     JDict(<<Item(K_summary, JStr(Str_App)),
                             Item(K_mermaid, JStr(<<"graph", "\n", "A">>)),
                             Item(K_issues, JList(<<JStr(<<"a">>)>>)),
                             Item(K_fixes, JList(<<JStr(<<"f">>)>>))>>) } }
    \cup { r \in TruncatedReplies :
             /\ r.origin.src = JDict(<<Item(K_summary, JStr(Str_App)),
                                       Item(K_issues, JList(<<JStr(<<"a">>)>>))>>)
             /\ r.text[Len(r.text)] = "x" }

----------------------------------------------------------------------------
(* perform_deep_analysis, gemini_service.py:404-564, as a state machine *)

Listed(name, has_methods, supports_generate) ==
    [name |-> name, has_methods |-> has_methods, supports_generate |-> supports_generate]

\* answers of genai.list_models()
Listings ==
    { [ok |-> FALSE, models |-> <<>>],
      [ok |-> TRUE,  models |-> <<>>],
      [ok |-> TRUE,  models |-> <<Listed("gemini-pro", TRUE, TRUE),
                                  Listed("gemini-Flash-latest", TRUE, TRUE)>>],
      [ok |-> TRUE,  models |-> <<Listed("embedding-001", TRUE, FALSE),
                                  Listed("gemini-pro", FALSE, FALSE)>>] }

\* sets of identifiers on which genai.GenerativeModel succeeds
Constructibles ==
    { {}, {"gemini-pro"}, {"gemini-1.5-flash", "gemini-pro"},
      {"gemini-Flash-latest", "gemini-1.5-flash-8b"} }

Unassigned == [set |-> FALSE, text |-> <<>>]
NoOrigin   == [kind |-> "none", src |-> JNull]

----------------------------------------------------------------------------
(* The READMEs the reduction is run on *)

\* longest run of lines that follows the first lines of a generated README
MaxTail == 3

Rep(line, n) == [i \in 1..n |-> line]

H_short  == <<Run("#", 1), Run(" ", 1), Run("T", 8)>>
H_indent == <<Run(" ", 2), Run("#", 2), Run("t", 36)>>
H_long   == <<Run("#", 1), Run("h", 399)>>
B_empty  == <<>>
B_short  == <<Run("a", 29), Run(".", 1)>>
B_mid    == <<Run("b", 200), Run(".", 1), Run("b", 99)>>
B_long   == <<Run("c", 900)>>

HeadShapes == { H_short, B_empty, B_short, B_mid }
TailShapes == { H_short, H_indent, H_long, B_short, B_mid, B_long }

\* the lines of a README: none, one short of or all of the first lines, built of
\* two shapes, and a tail of arbitrary lines
ReadmeLines ==
    { Rep(a, j) \o Rep(b, h - j) \o tail :
        h \in {0, first_lines - 1, first_lines}, j \in 0..2,
        a \in HeadShapes, b \in HeadShapes, tail \in SeqsUpTo(TailShapes, MaxTail) }

\* the texts requests.get can answer with
Readmes == { RJoin(lines) : lines \in { l \in ReadmeLines : Len(l) > 0 } }

\* the READMEs of the whole pipeline: a short one and one that is reduced
PipelineReadmes ==
    { RJoin(<<H_short, B_short>>),
      RJoin(Rep(B_short, first_lines) \o <<B_short, H_short, B_long>>) }

----------------------------------------------------------------------------
(* AnalyzeRepoView.post, views.py:36-109 *)

Absent == [t |-> "absent"]

\* what request.data holds under github_url
Requests ==
    { Absent, JNum(7), JNull, JStr(<<>>), JStr(<<" ">>),
      JStr(<<"example.com", "/", "o", "/", "r">>),
      JStr(<<" ", "github.com", "/", "o", "/", "r", "/">>),
      JStr(<<"https://", "github.com", "/">>) }

\* lines 48-62: github_url as it is passed on, for a string or absent value
ViewUrl(req) ==
    LET u == Strip(IF req.t = "str" THEN req.s ELSE <<>>) IN
    IF u # <<>> /\ u[1] \notin {"http://", "https://"} THEN <<"https://">> \o u ELSE u

NoResponse == [status |-> 0, success |-> FALSE, error |-> <<>>, data |-> JNull]

\* lines 81-87
Response200(data) == [status |-> 200, success |-> TRUE, error |-> <<>>, data |-> data]

\* lines 52-58, 66-72, 92-98
Response400(error_text) == [status |-> 400, success |-> FALSE, error |-> error_text, data |-> JNull]

\* lines 103-109
Response500 ==
    [status |-> 500, success |-> FALSE,
     error |-> <<"An unexpected error occurred during analysis">>, data |-> JNull]

\* lines 46-72: what post answers before it calls perform_deep_analysis, NoResponse
\* when it goes on to call it
ViewPrecheck(req) ==
    IF req.t \notin {"absent", "str"} THEN Response500
    ELSE IF ViewUrl(req) = <<>> THEN Response400(<<"github_url is required">>)
    ELSE IF ~Contains(ViewUrl(req), "github.com")
         THEN Response400(<<"URL must be a valid GitHub repository URL">>)
    ELSE NoResponse

\* lines 77-109: what post answers when perform_deep_analysis returned result or
\* raised an exception of class exc_class with text exc_text
ViewAnswer(finished, result, exc_class, exc_text) ==
    IF finished THEN Response200(result)
    ELSE IF exc_class = "GeminiAnalysisError" THEN Response400(exc_text)
    ELSE Response500

----------------------------------------------------------------------------
(* The messages of the errors perform_deep_analysis raises *)

QuotaText ==
    <<"Quota exceeded after ", "1", " attempts. ",
      "Please wait before trying again or upgrade your API tier.">>

EmptyText == <<"Empty response from Gemini model">>

\* lines 360-364; the modelled replies are shorter than the 200 characters of the preview
ParseErrorText(response_text) ==
    <<"Could not extract valid JSON from Gemini response. ", "Response preview: ">>
    \o response_text \o <<"... ", "Please check the server logs for the full response.">>

SchemaText == <<"Response must be a JSON object">>

\* lines 561-564
UnexpectedText(detail) == <<"Unexpected error during analysis: ">> \o detail

UnboundLocalText ==
    <<"cannot access local variable 'response' where it is not associated with a value">>

----------------------------------------------------------------------------
(* The state machine: one request to AnalyzeRepoView.post *)

Init ==
    /\ view = "post"
    /\ request = Absent
    /\ http = NoResponse
    /\ pc = "fetch"
    /\ api_key \in BOOLEAN
    /\ net = <<>>
    /\ readme = <<>>
    /\ readme_content = <<>>
    /\ models_listed = [ok |-> FALSE, models |-> <<>>]
    /\ constructs = {}
    /\ tried = <<>>
    /\ model = "none"
    /\ script \in SeqsOfLen(Outcomes, ScriptLen)
    /\ gen = <<>>
    /\ attempt = 0
    /\ retry_delay = RETRY_DELAY
    /\ slept = 0
    /\ response = Unassigned
    /\ origin = NoOrigin
    /\ parsed = JNull
    /\ via = "none"
    /\ validated = JNull
    /\ error = "none"
    /\ error_msg = <<>>

\* the exception leaves perform_deep_analysis as GeminiAnalysisError (lines 559-564)
Raise(what, text) == pc' = "raised" /\ error' = what /\ error_msg' = text

NoRaise == UNCHANGED <<error, error_msg>>

\* views.py lines 46-77: post up to the call of perform_deep_analysis
PostRequest ==
    /\ view = "post"
    /\ \E req \in Requests :
          /\ request' = req
          /\ http' = ViewPrecheck(req)
          /\ view' = IF ViewPrecheck(req) = NoResponse THEN "analysing" ELSE "responded"
    /\ UNCHANGED <<pc, api_key, net, readme, readme_content, models_listed, constructs,
                   tried, model, script, gen, attempt, retry_delay, slept, response,
                   origin, parsed, via, validated, error, error_msg>>

\* line 433
FetchReadme ==
    /\ view = "analysing"
    /\ pc = "fetch"
    /\ \E main \in {"200", "404", "500", "exc"}, master \in {"200", "404", "exc"},
          text \in PipelineReadmes :
          LET r == FetchGithubReadme(UrlFormatOk(ViewUrl(request)), main, master) IN
          /\ net' = net \o r.calls
          /\ IF r.raised
             THEN /\ Raise("fetch", FetchErrorText(ViewUrl(request), main, master))
                  /\ UNCHANGED <<readme, readme_content>>
             ELSE /\ pc' = "reduce"
                  /\ readme' = text
                  /\ readme_content' = text
                  /\ NoRaise
    /\ UNCHANGED <<view, request, http, api_key, models_listed, constructs, tried, model,
                   script, gen, attempt, retry_delay, slept, response, origin, parsed, via,
                   validated>>

\* lines 437-468
Reduce ==
    /\ pc = "reduce"
    /\ readme_content' = ReduceReadme(readme_content)
    /\ pc' = "configure"
    /\ UNCHANGED <<view, request, http, api_key, net, readme, models_listed, constructs,
                   tried, model, script, gen, attempt, retry_delay, slept, response,
                   origin, parsed, via, validated, error, error_msg>>

\* line 475, the backend answering with one of the given listings and constructing
\* the identifiers of one of the given sets
ConfigureWith(listings, constructibles) ==
    /\ pc = "configure"
    /\ \E listing \in listings, constructible \in constructibles :
          LET r == ConfigureGeminiModel(api_key, listing, constructible) IN
          /\ models_listed' = listing
          /\ constructs' = constructible
          /\ net' = net \o r.calls
          /\ tried' = r.tried
          /\ model' = r.model
          /\ IF r.raised # "none" THEN Raise(r.raised, r.msg) ELSE pc' = "generate" /\ NoRaise
    /\ UNCHANGED <<view, request, http, api_key, readme, readme_content, script, gen,
                   attempt, retry_delay, slept, response, origin, parsed, via, validated>>

ConfigureModel == ConfigureWith(Listings, Constructibles)

\* the record of one generate_content call: how it was made and what it raised
Call(mode, kind, msg) ==
    [mode |-> mode, attempt |-> attempt, slept |-> slept, ok |-> kind = "ok", msg |-> msg]

\* lines 502-511: the call with response_mime_type; any exception leads to the
\* call without it (line 512)
GenerateJson ==
    /\ pc = "generate"
    /\ Len(gen) < Len(script)
    /\ \E msg \in MessagesOf(script[Len(gen) + 1]) :
       /\ gen' = Append(gen, Call("json", script[Len(gen) + 1], msg))
       /\ net' = Append(net, "generate")
       /\ IF script[Len(gen) + 1] = "ok"
          THEN /\ \E r \in PipelineReplies :
                     response' = [set |-> TRUE, text |-> r.text] /\ origin' = r.origin
               /\ pc' = "check"
          ELSE pc' = "fallback" /\ UNCHANGED <<response, origin>>
    /\ UNCHANGED <<view, request, http, api_key, readme, readme_content, models_listed,
                   constructs, tried, model, script, attempt, retry_delay, slept, parsed,
                   via, validated, error, error_msg>>

\* lines 515-542: the call without response_mime_type and, when it raises, the
\* handler of the retry loop, the sleep and the step to the next attempt included
GenerateFallback ==
    /\ pc = "fallback"
    /\ Len(gen) < Len(script)
    /\ \E msg \in MessagesOf(script[Len(gen) + 1]) :
       LET decision == HandlerDecision(msg, attempt) IN
       /\ gen' = Append(gen, Call("plain", script[Len(gen) + 1], msg))
       /\ net' = Append(net, "generate")
       /\ IF script[Len(gen) + 1] = "ok"
          THEN /\ \E r \in PipelineReplies :
                     response' = [set |-> TRUE, text |-> r.text] /\ origin' = r.origin
               /\ pc' = "check"
               /\ UNCHANGED <<attempt, retry_delay, slept, error, error_msg>>
          ELSE /\ UNCHANGED <<response, origin>>
               /\ IF decision = "sleep"
                  THEN /\ slept' = slept + retry_delay
                       /\ retry_delay' = retry_delay * 2
                       /\ attempt' = attempt + 1
                       /\ pc' = IF attempt + 1 < max_retries + 1 THEN "generate" ELSE "check"
                       /\ NoRaise
                  ELSE /\ IF decision = "quota" THEN Raise("quota", QuotaText)
                          ELSE Raise("unexpected", UnexpectedText(msg))
                       /\ UNCHANGED <<attempt, retry_delay, slept>>
    /\ UNCHANGED <<view, request, http, api_key, readme, readme_content, models_listed,
                   constructs, tried, model, script, parsed, via, validated>>

\* a variant that hands every assigned reply to the parser
CheckResponse_NoEmptyTest ==
    /\ pc = "check"
    /\ IF ~response.set THEN Raise("unexpected", UnexpectedText(UnboundLocalText))
       ELSE pc' = "parse" /\ NoRaise
    /\ UNCHANGED <<view, request, http, api_key, net, readme, readme_content,
                   models_listed, constructs, tried, model, script, gen, attempt,
                   retry_delay, slept, response, origin, parsed, via, validated>>

\* lines 544-545; reading an unassigned response raises UnboundLocalError
CheckResponse ==
    /\ pc = "check"
    /\ IF ~response.set THEN Raise("unexpected", UnexpectedText(UnboundLocalText))
       ELSE IF response.text = <<>> THEN Raise("empty", EmptyText)
       ELSE pc' = "parse" /\ NoRaise
    /\ UNCHANGED <<view, request, http, api_key, net, readme, readme_content,
                   models_listed, constructs, tried, model, script, gen, attempt,
                   retry_delay, slept, response, origin, parsed, via, validated>>

\* line 551
Parse ==
    /\ pc = "parse"
    /\ LET r == ParseGeminiResponse(response.text) IN
       IF r.raised
       THEN Raise("parse", ParseErrorText(response.text)) /\ UNCHANGED <<parsed, via>>
       ELSE pc' = "validate" /\ parsed' = r.value /\ via' = r.via /\ NoRaise
    /\ UNCHANGED <<view, request, http, api_key, net, readme, readme_content,
                   models_listed, constructs, tried, model, script, gen, attempt,
                   retry_delay, slept, response, origin, validated>>

\* lines 554-557
Validate ==
    /\ pc = "validate"
    /\ LET r == ValidateResponseSchema(parsed) IN
       IF r.raised
       THEN Raise("schema", SchemaText) /\ UNCHANGED validated
       ELSE pc' = "done" /\ validated' = r.value /\ NoRaise
    /\ UNCHANGED <<view, request, http, api_key, net, readme, readme_content,
                   models_listed, constructs, tried, model, script, gen, attempt,
                   retry_delay, slept, response, origin, parsed, via>>

\* views.py lines 77-109: perform_deep_analysis has returned or raised; every
\* exception that leaves it is a GeminiAnalysisError (lines 559-564)
Respond ==
    /\ view = "analysing"
    /\ pc \in {"done", "raised"}
    /\ http' = ViewAnswer(pc = "done", validated, "GeminiAnalysisError", error_msg)
    /\ view' = "responded"
    /\ UNCHANGED <<request, pc, api_key, net, readme, readme_content, models_listed,
                   constructs, tried, model, script, gen, attempt, retry_delay, slept,
                   response, origin, parsed, via, validated, error, error_msg>>

Next ==
    \/ PostRequest
    \/ FetchReadme
    \/ Reduce
    \/ ConfigureModel
    \/ GenerateJson
    \/ GenerateFallback
    \/ CheckResponse
    \/ Parse
    \/ Validate
    \/ Respond

\* one request to the view, with its call of perform_deep_analysis
Spec == Init /\ [][Next]_vars

----------------------------------------------------------------------------
(* The README reduction alone, on every generated README *)

InitReduce ==
    /\ \E text \in Readmes : readme = text /\ readme_content = text
    /\ view = "analysing"
    /\ request = JStr(<<"github.com", "/", "o", "/", "r">>)
    /\ http = NoResponse
    /\ pc = "reduce"
    /\ api_key = TRUE
    /\ net = <<"readme">>
    /\ models_listed = [ok |-> FALSE, models |-> <<>>]
    /\ constructs = {}
    /\ tried = <<>>
    /\ model = "none"
    /\ script = <<>>
    /\ gen = <<>>
    /\ attempt = 0
    /\ retry_delay = RETRY_DELAY
    /\ slept = 0
    /\ response = Unassigned
    /\ origin = NoOrigin
    /\ parsed = JNull
    /\ via = "none"
    /\ validated = JNull
    /\ error = "none"
    /\ error_msg = <<>>

SpecReduce == InitReduce /\ [][Reduce]_vars

----------------------------------------------------------------------------
(* configure_gemini_model alone, on every generated answer of the backend *)

\* most models a generated listing holds
MaxListed == 2

ListedNames == {"gemini-pro", "gemini-Flash-latest", "gemini-1.5-flash", "gemini-1.0-pro"}

ListedModels ==
    { Listed(name, has, sup) : name \in ListedNames, has \in BOOLEAN, sup \in BOOLEAN }

\* a listing longer than the error message reports: identifiers "m1", "m2", ...
LongListing ==
    [ok |-> TRUE,
     models |-> [i \in 1..(reported_models + 1) |-> Listed("m" \o ToString(i), TRUE, TRUE)]]

AllListings ==
    { [ok |-> FALSE, models |-> <<>>], LongListing }
    \cup { [ok |-> TRUE, models |-> l] : l \in SeqsUpTo(ListedModels, MaxListed) }

AllConstructibles ==
    { {}, {"m" \o ToString(reported_models + 1)} }
    \cup SUBSET {"gemini-pro", "gemini-Flash-latest", "gemini-1.5-flash", "gemini-1.5-flash-8b"}

ConfigureAlone == ConfigureWith(AllListings, AllConstructibles)

InitConfigure ==
    /\ view = "analysing"
    /\ request = JStr(<<"github.com", "/", "o", "/", "r">>)
    /\ http = NoResponse
    /\ pc = "configure"
    /\ api_key \in BOOLEAN
    /\ net = <<"readme">>
    /\ readme = RJoin(<<H_short>>)
    /\ readme_content = RJoin(<<H_short>>)
    /\ models_listed = [ok |-> FALSE, models |-> <<>>]
    /\ constructs = {}
    /\ tried = <<>>
    /\ model = "none"
    /\ script = <<>>
    /\ gen = <<>>
    /\ attempt = 0
    /\ retry_delay = RETRY_DELAY
    /\ slept = 0
    /\ response = Unassigned
    /\ origin = NoOrigin
    /\ parsed = JNull
    /\ via = "none"
    /\ validated = JNull
    /\ error = "none"
    /\ error_msg = <<>>

SpecConfigure == InitConfigure /\ [][ConfigureAlone]_vars

----------------------------------------------------------------------------
(* parse_gemini_response alone, on every generated reply *)

InitParse ==
    /\ \E r \in ParseInputs : response = [set |-> TRUE, text |-> r.text] /\ origin = r.origin
    /\ view = "analysing"
    /\ request = JStr(<<"github.com", "/", "o", "/", "r">>)
    /\ http = NoResponse
    /\ pc = "parse"
    /\ api_key = TRUE
    /\ net = <<"readme", "list_models", "generate">>
    /\ readme = RJoin(<<H_short>>)
    /\ readme_content = RJoin(<<H_short>>)
    /\ models_listed = [ok |-> FALSE, models |-> <<>>]
    /\ constructs = {}
    /\ tried = <<>>
    /\ model = "gemini-1.5-flash"
    /\ script = <<>>
    /\ gen = <<>>
    /\ attempt = 0
    /\ retry_delay = RETRY_DELAY
    /\ slept = 0
    /\ parsed = JNull
    /\ via = "none"
    /\ validated = JNull
    /\ error = "none"
    /\ error_msg = <<>>

SpecParse == InitParse /\ [][Parse]_vars

----------------------------------------------------------------------------
(* validate_response_schema alone, on parsed values of every shape *)

AnyValues ==
    { JStr(<<>>), JStr(Str_App), JNull, JNum(7), JBool(FALSE), JList(<<JStr(<<"a">>)>>),
      JDict(<<>>), JDict(<<Item(<<"k">>, JNum(7))>>) }

AnyElems == { JStr(<<"a">>), JNum(7), JNull, JList(<<JStr(<<"a">>)>>) }

ValidateInputs ==
    { JDict(s \o m \o i \o f \o x) :
        s \in MaybeItem(K_summary, AnyValues),
        m \in MaybeItem(K_mermaid, { JStr(<<>>), JStr(<<"graph", "\n", "A">>), JNull, JNum(7) }),
        i \in MaybeItem(K_issues, { JList(l) : l \in SeqsUpTo(AnyElems, MaxItems) }
                                  \cup { JStr(<<"a">>), JNull }),
        f \in MaybeItem(K_fixes, { JList(<<>>), JList(<<JDict(<<>>)>>), JNum(7) }),
        x \in MaybeItem(<<"extra">>, { JNum(7) }) }
    \cup { JStr(<<"not an object">>), JList(<<>>), JNum(7), JNull, JBool(TRUE),
           JList(<<JDict(<<>>)>>) }

InitValidate ==
    /\ view = "analysing"
    /\ request = JStr(<<"github.com", "/", "o", "/", "r">>)
    /\ http = NoResponse
    /\ pc = "validate"
    /\ api_key = TRUE
    /\ net = <<"readme", "list_models", "generate">>
    /\ readme = RJoin(<<H_short>>)
    /\ readme_content = RJoin(<<H_short>>)
    /\ models_listed = [ok |-> FALSE, models |-> <<>>]
    /\ constructs = {}
    /\ tried = <<>>
    /\ model = "gemini-1.5-flash"
    /\ script = <<>>
    /\ gen = <<>>
    /\ attempt = 0
    /\ retry_delay = RETRY_DELAY
    /\ slept = 0
    /\ response = Unassigned
    /\ origin = NoOrigin
    /\ parsed \in ValidateInputs
    /\ via = "none"
    /\ validated = JNull
    /\ error = "none"
    /\ error_msg = <<>>

SpecValidate == InitValidate /\ [][Validate]_vars

----------------------------------------------------------------------------
(* Properties of the retry loop and of the order of the calls (Spec) *)

\* the retry loop has been left, by break, by exhaustion or by a raise out of it
LoopLeft == gen # <<>> /\ pc \in {"check", "parse", "validate", "done", "raised"}

\* the backend fails both calls of the first two attempts on quota and then replies
TwoQuotaAttemptsThenReply ==
    /\ \A i \in 1..4 : script[i] = "quota"
    /\ script[5] = "ok"

\* C1: when the backend fails the first two attempts with a rate-limit signal and
\* succeeds on the third, the analysis goes on with that reply and the time slept is
\* the base delay plus twice the base delay.
C1_BackoffThenReply ==
    (TwoQuotaAttemptsThenReply /\ LoopLeft)
        => (response.set /\ error # "quota" /\ slept = RETRY_DELAY + 2 * RETRY_DELAY)

\* C2: the quota-exceeded error is raised only after the retry budget is used up:
\* the failing attempt is the last permitted one (attempt = max_retries) and the
\* sleep of retry_delay after the first attempt's quota failure has happened.
C2_QuotaOnlyAfterRetry ==
    error = "quota" => (attempt = max_retries /\ slept = RETRY_DELAY)

\* the i-th generate call failed with a message that holds none of 429, quota, rate limit
NonQuotaFailure(i) == ~gen[i].ok /\ gen[i].msg \in OtherMessages

\* C3 as stated: a generate call that fails with a non-quota error is the last generate
\* call of the analysis: nothing is slept and no further generate call is issued.
C3_NonQuotaRaisesAtOnce ==
    \A i \in 1..Len(gen) :
        NonQuotaFailure(i) => (i = Len(gen) /\ slept = gen[i].slept)

\* C3 amended: a non-quota failure of the call made without response_mime_type raises
\* at once (last generate call, nothing slept since, the exception leaves as the
\* unexpected error); a non-quota failure of the call made with response_mime_type is
\* followed only by the call without it, of the same attempt, with no sleep between.
C3_FallbackNonQuotaRaisesAtOnce ==
    \A i \in 1..Len(gen) :
        NonQuotaFailure(i) =>
            IF gen[i].mode = "plain"
            THEN i = Len(gen) /\ pc = "raised" /\ error = "unexpected" /\ slept = gen[i].slept
            ELSE \/ i = Len(gen) /\ pc = "fallback" /\ slept = gen[i].slept
                 \/ /\ i < Len(gen)
                    /\ gen[i + 1].mode = "plain"
                    /\ gen[i + 1].attempt = gen[i].attempt
                    /\ gen[i + 1].slept = gen[i].slept

C3_Witness ==
    /\ Len(gen) = 2
    /\ NonQuotaFailure(1) /\ NonQuotaFailure(2)
    /\ pc = "raised" /\ error = "unexpected" /\ slept = 0

\* C4 as stated: the configuration error raised for a missing credential is preceded
\* by no network call, the README fetch included.
C4_ConfigErrorBeforeAnyCall ==
    (~api_key /\ pc = "raised" /\ error = "config") => net = <<>>

\* C4 amended: without a credential the analysis fetches the README first and fails
\* with the fetch error if that fails, else with the configuration error; in either
\* case no call to the model backend (listing, generate) is made.
C4_ConfigErrorBeforeBackendCall ==
    ~api_key => /\ \A i \in 1..Len(net) : net[i] = "readme"
                /\ pc \in {"fetch", "reduce", "configure", "raised"}
                /\ (pc = "raised" => error \in {"fetch", "config"})
                /\ (error = "config" => net # <<>>)
                /\ (error = "fetch" => model = "none")

C4_Witness == ~api_key /\ pc = "raised" /\ error = "config" /\ net = <<"readme">>

----------------------------------------------------------------------------
(* Properties of parse_gemini_response (SpecParse) *)

ParseReturned == pc = "validate"
ParseEnded == pc \in {"validate", "raised"}

\* C5: a reply text that is itself valid JSON is returned as json.loads of that text.
C5_ValidJsonUnchanged ==
    (ParseEnded /\ JsonLoads(response.text).ok)
        => (ParseReturned /\ parsed = JsonLoads(response.text).v)

\* C6: for an object cut inside detected_issues after at least one complete element,
\* the result holds the summary, the mermaid_code that preceded the cut and, as
\* detected_issues, the complete elements that preceded the cut, in order.
C6_TruncatedIssuesRecovered ==
    (ParseEnded /\ origin.kind = "truncated")
        => /\ ParseReturned
           /\ parsed.t = "dict"
           /\ \A i \in 1..Len(origin.src.d) :
                 /\ HasKey(parsed.d, origin.src.d[i].k)
                 /\ DictGet(parsed.d, origin.src.d[i].k, JNull) = origin.src.d[i].v

----------------------------------------------------------------------------
(* Properties of validate_response_schema (SpecValidate) *)

ValidateReturned == pc = "done"

AllStr(l) == \A i \in 1..Len(l) : l[i].t = "str"

WellFormed(v) ==
    /\ v.t = "dict"
    /\ Len(v.d) = 4
    /\ {v.d[i].k : i \in 1..Len(v.d)} = {<<"summary">>, <<"mermaid_code">>,
                                         <<"detected_issues">>, <<"fix_recommendations">>}
    /\ DictGet(v.d, <<"summary">>, JNull).t = "str"
    /\ DictGet(v.d, <<"mermaid_code">>, JNull).t = "str"
    /\ DictGet(v.d, <<"detected_issues">>, JNull).t = "list"
    /\ AllStr(DictGet(v.d, <<"detected_issues">>, JNull).l)
    /\ DictGet(v.d, <<"fix_recommendations">>, JNull).t = "list"
    /\ AllStr(DictGet(v.d, <<"fix_recommendations">>, JNull).l)

\* C7: every value validate_response_schema returns is a mapping with exactly the four
\* keys, summary and mermaid_code strings, the other two lists of strings.
C7_ResultWellFormed == ValidateReturned => WellFormed(validated)

\* a mapping without summary whose detected_issues holds an element that is no string
C7_Witness ==
    /\ ValidateReturned
    /\ ~HasKey(parsed.d, <<"summary">>)
    /\ HasKey(parsed.d, <<"detected_issues">>)
    /\ DictGet(parsed.d, <<"detected_issues">>, JNull) = JList(<<JStr(<<"a">>), JNum(7)>>)

SummaryOf(v) == DictGet(v.d, <<"summary">>, JNull).s
MermaidOf(v) == DictGet(v.d, <<"mermaid_code">>, JNull).s

\* C9 as stated: the summary of the result is the placeholder when the input's summary
\* is missing or is not a string, and the input's own summary otherwise.
C9_PlaceholderUnlessString ==
    ValidateReturned =>
        SummaryOf(validated) =
            IF HasKey(parsed.d, <<"summary">>) /\ DictGet(parsed.d, <<"summary">>, JNull).t = "str"
            THEN DictGet(parsed.d, <<"summary">>, JNull).s
            ELSE <<"No summary generated">>

\* the text str() gives for the values that are no strings
C9_TextOf(v) ==
    CASE v = JNull -> <<"None">>
      [] v = JNum(7) -> <<"7">>
      [] v = JBool(FALSE) -> <<"False">>
      [] v = JList(<<JStr(<<"a">>)>>) -> <<"[", "'", "a", "'", "]">>
      [] v = JDict(<<>>) -> <<"{", "}">>
      [] v = JDict(<<Item(<<"k">>, JNum(7))>>) -> <<"{", "'", "k", "'", ":", " ", "7", "}">>

\* C9 amended: the summary of the result is the placeholder only when the input has no
\* summary key; when it has one, the result is str() of its value: the input's own
\* string when it is a string, the text of the value (None, 7, ['a'], ...) when not.
C9_PlaceholderOnlyIfMissing ==
    ValidateReturned =>
        SummaryOf(validated) =
            IF ~HasKey(parsed.d, <<"summary">>) THEN <<"No summary generated">>
            ELSE IF DictGet(parsed.d, <<"summary">>, JNull).t = "str"
                 THEN DictGet(parsed.d, <<"summary">>, JNull).s
                 ELSE C9_TextOf(DictGet(parsed.d, <<"summary">>, JNull))

C9_Witness ==
    /\ ValidateReturned
    /\ HasKey(parsed.d, <<"summary">>)
    /\ DictGet(parsed.d, <<"summary">>, JStr(<<>>)) = JNull
    /\ SummaryOf(validated) = <<"None">>

\* C10: the mermaid_code of the result is never the empty string.
C10_MermaidNeverEmpty == ValidateReturned => MermaidOf(validated) # <<>>

----------------------------------------------------------------------------
(* Properties of the README reduction (SpecReduce) *)

Reduced == pc = "configure"

\* C11: after the reduction readme_content is at most max_readme_length characters
\* long, the three characters of an ellipsis apart, and no error was raised.
C11_ReducedWithinLimit ==
    Reduced => (RLen(readme_content) <= max_readme_length + ellipsis_length /\ error = "none")

\* a README of more than first_lines lines, with a heading that is longer than what
\* is left of the budget and is cut to fill it
C11_Witness ==
    /\ Reduced
    /\ RLen(readme) > max_readme_length
    /\ Len(RSplit(readme)) > first_lines
    /\ \E i \in 1..Len(RSplit(readme)) :
          IsHeading(RSplit(readme)[i]) /\ RLen(RSplit(readme)[i]) > max_readme_length \div 4
    /\ RLen(readme_content) = max_readme_length

RECURSIVE Cost(_, _)
\* the characters the first i lines take when all of them are retained
Cost(lines, i) == IF i = 0 THEN 0 ELSE Cost(lines, i - 1) + RLen(lines[i]) + 1

\* the heading lines that fit in the budget even when every line before them is retained
FittingHeadings(lines) ==
    {i \in 1..Len(lines) : IsHeading(lines[i]) /\ Cost(lines, i) <= max_readme_length}

Occurrences(lines, line) == Cardinality({k \in 1..Len(lines) : lines[k] = line})

\* C17: when the README is longer than max_readme_length, every heading line of it
\* that fits in the budget is a line of the reduced text, as often as it occurs,
\* wherever it stands.
C17_HeadingsRetained ==
    (Reduced /\ RLen(readme) > max_readme_length) =>
        LET lines == RSplit(readme) IN
        \A i \in FittingHeadings(lines) :
            Cardinality({k \in FittingHeadings(lines) : lines[k] = lines[i]})
                <= Occurrences(RSplit(readme_content), lines[i])

----------------------------------------------------------------------------
(* Properties of the view (Spec) *)

\* C12: a request whose analysis ended in the unexpected error is answered with
\* status 500 and the generic message, the text of the exception nowhere in the body.
C12_UnexpectedIs500 ==
    (view = "responded" /\ error = "unexpected") =>
        /\ http.status = 500
        /\ http.error = <<"An unexpected error occurred during analysis">>
        /\ \A i \in 1..Len(gen) : ~gen[i].ok =>
              \A k \in 1..Len(gen[i].msg) : ~Contains(http.error, gen[i].msg[k])

----------------------------------------------------------------------------
(* Properties of configure_gemini_model (SpecConfigure) *)

Configured == pc \in {"generate", "raised"} /\ api_key

NotFlash(model_name) == ~IsFlash(model_name)

\* the elements of order up to the first one GenerativeModel succeeds on, all of
\* them when it succeeds on none
UpToFirstSuccess(order) ==
    LET W == {i \in 1..Len(order) : order[i] \in constructs} IN
    IF W = {} THEN order ELSE SubSeq(order, 1, Min(W))

\* C13 as stated: construction is attempted on the discovered flash identifiers, then
\* on the static list, then on the other discovered identifiers, up to the first success.
C13_TriedFlashStaticOthers ==
    Configured =>
        tried = UpToFirstSuccess(FlashModels(models_listed) \o preferred_flash_models
                                 \o SelectSeq(AvailableModelNames(models_listed), NotFlash))

\* C13 amended: construction is attempted on the discovered flash identifiers, then on
\* the static list, then on every discovered identifier, the flash ones once more; the
\* first success is returned and ends the attempts, so a model that is no flash model
\* is returned only when construction failed on every discovered and static flash one.
C13_TriedFlashStaticAll ==
    Configured =>
        LET flash == FlashModels(models_listed)
            all == AvailableModelNames(models_listed)
            order == flash \o preferred_flash_models \o all
        IN /\ Len(tried) <= Len(order)
           /\ \A i \in 1..Len(tried) : tried[i] = order[i]
           /\ \A i \in 1..(Len(tried) - 1) : tried[i] \notin constructs
           /\ IF pc = "generate"
              THEN tried # <<>> /\ model = tried[Len(tried)] /\ model \in constructs
              ELSE /\ error = "nomodel" /\ model = "none" /\ Len(tried) = Len(order)
                   /\ \A i \in 1..Len(tried) : tried[i] \notin constructs
           /\ (pc = "generate" /\ NotFlash(model)) =>
                 \A i \in 1..Len(flash \o preferred_flash_models) :
                     (flash \o preferred_flash_models)[i] \notin constructs

\* every discovered flash identifier fails and is attempted once more before a
\* model that is no flash model is returned
C13_Witness ==
    /\ Configured /\ pc = "generate"
    /\ NotFlash(model)
    /\ FlashModels(models_listed) # <<>>
    /\ Len(tried) > Len(FlashModels(models_listed)) + Len(preferred_flash_models) + 1

\* the identifiers a text names
NamedIn(text) ==
    {text[i] : i \in 1..Len(text)}
    \cap ({models_listed.models[i].name : i \in 1..Len(models_listed.models)}
          \cup {preferred_flash_models[i] : i \in 1..Len(preferred_flash_models)})

----------------------------------------------------------------------------
(* Properties of the reply check and of the loop (Spec) *)

\* C15: a reply with empty text makes the analysis fail with the empty-reply error:
\* neither parser nor validator ran, and the call that gave the reply is the last
\* generate call, with nothing slept after it.
C15_EmptyReplyRaises ==
    (response.set /\ response.text = <<>> /\ pc # "check") =>
        /\ pc = "raised" /\ error = "empty" /\ error_msg = EmptyText
        /\ parsed = JNull /\ via = "none" /\ validated = JNull
        /\ gen[Len(gen)].ok
        /\ slept = gen[Len(gen)].slept

\* the empty reply came from the call without response_mime_type
C15_Witness ==
    /\ response.set /\ response.text = <<>>
    /\ pc = "raised" /\ error = "empty"
    /\ Len(gen) = 2 /\ gen[2].mode = "plain"

\* C18: the loop makes at most two generate calls in each of at most max_retries + 1
\* attempts, and the code after the loop never reads a reply that was not assigned.
C18_LoopBoundedReplyAssigned ==
    /\ Len(gen) <= 2 * (max_retries + 1)
    /\ \A i \in 1..Len(gen) : gen[i].attempt \in 0..max_retries
    /\ \A a \in 0..max_retries : Cardinality({i \in 1..Len(gen) : gen[i].attempt = a}) <= 2
    /\ pc \in {"check", "parse", "validate", "done"} => response.set
    /\ error_msg # UnexpectedText(UnboundLocalText)

\* the loop is left with the reply of the second call of the first attempt
C18_Witness ==
    /\ pc = "check" /\ response.set
    /\ Len(gen) = 2 /\ ~gen[1].ok /\ gen[2].ok

----------------------------------------------------------------------------
(* Properties of the manual extraction of parse_gemini_response (SpecParse) *)

\* the manual extraction was reached: the text holds a '{' and no json.loads before
\* the extraction succeeded
ManualStageRan ==
    /\ ParseEnded
    /\ via \notin {"direct", "fence", "extract"}
    /\ Find(CleanText(response.text), "{") # 0

\* the fields whose regular expression matches json_str
FieldsFound(json_str) ==
    {k \in {"summary", "mermaid_code"} : SearchStringField(json_str, k).found}
    \cup {k \in {"detected_issues", "fix_recommendations"} : SearchArrayField(json_str, k).found}

\* C16 as stated: what the manual extraction returns contains the key summary.
C16_ManualNeedsSummary ==
    (ParseEnded /\ via = "manual") => HasKey(parsed.d, K_summary)

\* C16 amended: the manual extraction returns exactly when the regular expression of
\* at least one of the four fields matched, and what it returns has the keys of the
\* fields that matched, summary among them or not.
C16_ManualReturnsAnyField ==
    ManualStageRan =>
        LET found == FieldsFound(JsonStrOf(CleanText(response.text))) IN
        /\ via = "manual" <=> found # {}
        /\ via = "manual" => {parsed.d[i].k : i \in 1..Len(parsed.d)} = {<<k>> : k \in found}

\* only detected_issues was extracted, and it was returned
C16_Witness ==
    /\ ManualStageRan /\ via = "manual"
    /\ ~HasKey(parsed.d, K_summary)
    /\ HasKey(parsed.d, K_issues)

====
